---- MODULE Spec2Model ----
(***************************************************************************)
(* SensorListener (CameraHal/SensorListener.cpp): the listener object, its *)
(* looper thread, the client threads that call its public methods and the  *)
(* sensor subsystem that produces samples.                                 *)
(*                                                                         *)
(* Client threads run initialize / enableSensor / disableSensor /          *)
(* setCallbacks and finally the destructor.  The looper thread runs        *)
(* pollOnce -> sensor_events_listener -> handleOrientation -> callback.    *)
(* A step of the model is one access to shared state, so that every        *)
(* interleaving the unlocked code admits is a behaviour of the model.      *)
(*                                                                         *)
(* Spec      the object from its construction, under any public calls      *)
(* DrainSpec the initialized, enabled listener draining more than a batch  *)
(*           of samples, with fair scheduling of its threads               *)
(* MathSpec  the same listener handling one sample of any direction        *)
(***************************************************************************)
EXTENDS Integers, Sequences, FiniteSets, TLC

(* ---------------------------- bounds ----------------------------------- *)
\* public calls (initialize, setCallbacks, enableSensor, disableSensor) a
\* run may make before the destructor
MaxCalls == 4
\* samples the subsystem produces in a run
MaxSamples == 2
\* samples the subsystem produces in a run of DrainSpec: more than a batch
MaxDrain == 9

(* ------------------------ program constants ---------------------------- *)
\* ASensorEvent sen_events[8]; read(sen_events, 8)
BatchSize == 8

\* static const int DEGREES_90_THRESH / _180_ / _270_
DEGREES_90_THRESH == 50
DEGREES_180_THRESH == 170
DEGREES_270_THRESH == 250
\* RADIANS_2_DEG = (float) (180 / M_PI) = 57.29578, as the fraction
\* Rad2DegNum / Rad2DegDen
Rad2DegNum == 5729578
Rad2DegDen == 100000

NULL == "NULL"
NONE == "NONE"

\* the bit of sensor_type_t the listener uses
SENSOR_ORIENTATION == "SENSOR_ORIENTATION"
\* the values of `type' the clients pass: the orientation bit, or another bit
SensorTypes == {{SENSOR_ORIENTATION}, {"SENSOR_GYROSCOPE"}}

\* Sensor::TYPE_* of the samples the event queue delivers
TYPE_ACCELEROMETER == "TYPE_ACCELEROMETER"
TYPE_GYROSCOPE == "TYPE_GYROSCOPE"
SampleTypes == {TYPE_ACCELEROMETER, TYPE_GYROSCOPE}

\* status_t values initialize() can return
NO_ERROR == "NO_ERROR"
NO_INIT == "NO_INIT"
NO_MEMORY == "NO_MEMORY"
INVALID_OPERATION == "INVALID_OPERATION"
UNKNOWN_ERROR == "UNKNOWN_ERROR"

\* the client threads that call setCallbacks concurrently
Clients == {"t1", "t2"}
\* the callbacks and cookies clients register: f1 goes with k1, f2 with k2
Callbacks == {"f1", "f2"}
Cookies == {"k1", "k2"}
CookieOf(f) == IF f = "f1" THEN "k1" ELSE "k2"
\* the argument pairs of setCallbacks: a registration, or a null callback
SetCbArgs == {<<f, CookieOf(f)>> : f \in Callbacks} \cup {<<NULL, k>> : k \in Cookies}
\* mCbCookie is not set by the constructor: it holds any value
UninitCookies == Cookies \cup {"garbage"}

(* ------------------- samples and the orientation math ----------------- *)
\* An accelerometer sample (x, y, z) is given by the two angles the code
\* takes of it: az, the angle atan2(-x, y) in tenths of a degree normalised
\* to 0..3599, and el, the angle asin(z / radius) in whole degrees -90..90;
\* zero says that x = y = z = 0 (radius = 0).  seq is the order of production.
Sample(type, seq, az, el, zero) ==
    [type |-> type, seq |-> seq, az |-> az, el |-> el, zero |-> zero]

Abs(n) == IF n < 0 THEN -n ELSE n
Sgn(n) == IF n < 0 THEN -1 ELSE 1

\* `(int) atan2f(-x, y)' and `(int) asinf(z / radius)': the cast binds to the
\* function value, an angle in RADIANS, and truncates it towards zero.
\* a10 is the signed angle in tenths of a degree.
IntOfRadians(a10) == Sgn(a10) * ((Abs(a10) * (Rad2DegDen \div 10)) \div Rad2DegNum)

\* `<int> * RADIANS_2_DEG' assigned to an int: the float product truncated
TimesRad2Deg(k) == Sgn(k) * ((Abs(k) * Rad2DegNum) \div Rad2DegDen)

\* INT_MIN, what a conversion of NaN to int yields on x86
IntMin == -(2^30) - 2^30
\* the values `(int) asinf(NaN) * RADIANS_2_DEG' can leave in tilt: the
\* conversion of NaN to int is undefined; builds yield 0 (ARM) or INT_MIN (x86)
NaNTilts == {0, IntMin}

\* line 64: the values tilt can get for sample s
TiltsOf(s) ==
    IF s.zero THEN NaNTilts ELSE {TimesRad2Deg(IntOfRadians(10 * s.el))}

\* line 65: orient before normalisation; atan2f(-0.0, 0.0) is -0.0 when the
\* radius is zero
RawOrient(s) ==
    IF s.zero THEN 0
    ELSE LET a == s.az % 3600
             a10 == IF a > 1800 THEN a - 3600 ELSE a
         IN TimesRad2Deg(IntOfRadians(a10))

\* lines 67-79: normalisation to 0..359 and discretisation
Discretize(orient) ==
    LET o == IF orient < 0 THEN orient + 360 ELSE orient IN
    IF o >= DEGREES_270_THRESH THEN 270
    ELSE IF o >= DEGREES_180_THRESH THEN 180
    ELSE IF o >= DEGREES_90_THRESH THEN 90
    ELSE 0

OrientOf(s) == Discretize(RawOrient(s))

\* handleOrientation(uint32_t orientation, uint32_t tilt): the int arguments
\* are converted to uint32_t, n modulo 2^32, held as its two 16-bit halves
ToUint32(n) == [hi |-> (n \div 2^16) % 2^16, lo |-> n % 2^16]

VARIABLES
    sensorsEnabled,       \* set of enabled sensor bits (the bitmask)
    mOrientationCb,       \* registered callback or NULL
    mCbCookie,            \* registered cookie
    mSensorEventQueue,    \* id of the event queue (1..), or 0 for NULL
    mSensorLooperThread,  \* TRUE when the sp<> holds a thread object
    mLooper,              \* the MEMBER looper: id, or 0 for NULL
    mLock,                \* holder of mLock: NONE, "looper" or "client"
    thrLooper,            \* looper the thread object polls: id, or 0
    looperFds,            \* looper id -> set of registered fds (queue ids)
    nLoopers,             \* loopers created so far
    nQueues,              \* event queues created so far
    mRunning,             \* Thread::mRunning
    mExitPending,         \* Thread::mExitPending
    wakePending,          \* the looper's wake pipe holds a token
    lpc,                  \* where the looper thread is
    batch,                \* sen_events[i .. num_sensors-1], still to process
    hfn,                  \* the callback value handleOrientation tested
    cur,                  \* the callback invocation in progress
    reading,              \* the arguments of the handleOrientation call in progress
    track,                \* whether this behaviour keeps the history below
    num_sensors,          \* history: what the read() that ended the last drain
                          \* returned, until the thread's next test of the exit flag
    lastHandled,          \* history: seq of the sample handed to handleOrientation last
    lastInvoked,          \* history: seq of the sample the callback was invoked for last
    pending,              \* samples waiting in the current event queue
    hwEnabled,            \* accelerometer enabled on the current queue
    cpc,                  \* client -> "idle" or "cookie" (inside setCallbacks)
    carg,                 \* client -> the arguments of its setCallbacks call
    dpc,                  \* where the destructor is
    last,                 \* the latest completed public call and its effects
    crashed,              \* the process died on a null dereference
    nCalls,               \* public calls made so far
    nProduced             \* samples produced so far

vars == <<sensorsEnabled, mOrientationCb, mCbCookie, mSensorEventQueue,
          mSensorLooperThread, mLooper, mLock, thrLooper, looperFds, nLoopers,
          nQueues, mRunning, mExitPending, wakePending, lpc, batch, hfn, cur,
          reading, track, num_sensors, lastHandled, lastInvoked, pending,
          hwEnabled, cpc, carg, dpc, last, crashed, nCalls, nProduced>>

listenerVars == <<sensorsEnabled, mOrientationCb, mCbCookie, mSensorEventQueue,
                  mSensorLooperThread, mLooper>>
looperObjVars == <<thrLooper, looperFds, nLoopers, nQueues>>
historyVars == <<track, lastHandled, lastInvoked>>
threadVars == <<mRunning, mExitPending, wakePending, lpc, batch, hfn, cur,
                reading, num_sensors, historyVars>>
queueVars == <<pending, hwEnabled>>
clientVars == <<cpc, carg>>
countVars == <<nCalls, nProduced>>

\* The history variables record what the handler did for the claims about
\* the order and the number of deliveries.  A behaviour keeps them (track) or
\* leaves them at their initial values; they play no part in any guard.
Kept(old, new) == IF track THEN new ELSE old

\* carg of a client inside setCallbacks: the two arguments, the (function,
\* cookie) pair the listener held when the call was entered, and whether no
\* other setCallbacks call was in progress then
Args(a, slot, alone) == [cb |-> a[1], cookie |-> a[2], slot |-> slot, alone |-> alone]
\* carg of a client that is not inside setCallbacks
NoArgs == Args(<<NULL, NULL>>, <<NULL, NULL>>, TRUE)
\* a reading: the (orientation, tilt) handed to handleOrientation for the
\* sample numbered seq
Reading(o, t, seq) == [orientation |-> o, tilt |-> t, seq |-> seq]
NoReading == Reading(ToUint32(0), ToUint32(0), 0)
\* a callback invocation: the function, the cookie and the reading passed
Call(f, k, r) == [fn |-> f, cookie |-> k, orientation |-> r.orientation,
                  tilt |-> r.tilt, seq |-> r.seq]
NoCall == Call(NULL, NULL, NoReading)
\* `last': the public call entered last: its name, its `type' argument, what
\* getDefaultSensor returned to it, the status it returned (SIGSEGV when it
\* died on a null pointer) and the calls it made on its collaborators
NewOp(op, type, sensor) ==
    [op |-> op, arg |-> type, sensor |-> sensor, ret |-> NO_ERROR, calls |-> <<>>]
NoOp == NewOp("none", {}, NULL)
SIGSEGV == "SIGSEGV"

\* ListenerState of the data model, read off the fields
ListenerState ==
    IF dpc = "done" THEN "Destroyed"
    ELSE IF dpc # "none" THEN "ShuttingDown"
    ELSE IF mRunning THEN "Running"
    ELSE IF mSensorEventQueue # 0 \/ mSensorLooperThread THEN "Initialized"
    ELSE "Constructed"

\* SensorListener::SensorListener()
Init ==
    /\ sensorsEnabled = {}
    /\ mOrientationCb = NULL
    /\ mCbCookie \in UninitCookies
    /\ mSensorEventQueue = 0
    /\ mSensorLooperThread = FALSE
    /\ mLooper = 0
    /\ mLock = NONE
    /\ thrLooper = 0
    /\ looperFds = <<>>
    /\ nLoopers = 0
    /\ nQueues = 0
    /\ mRunning = FALSE
    /\ mExitPending = FALSE
    /\ wakePending = FALSE
    /\ lpc = "idle"
    /\ batch = <<>>
    /\ hfn = NULL
    /\ cur = NoCall
    /\ reading = NoReading
    /\ track = FALSE
    /\ num_sensors = 0
    /\ lastHandled = 0
    /\ lastInvoked = 0
    /\ pending = <<>>
    /\ hwEnabled = FALSE
    /\ cpc = [c \in Clients |-> "idle"]
    /\ carg = [c \in Clients |-> NoArgs]
    /\ dpc = "none"
    /\ last = NoOp
    /\ crashed = FALSE
    /\ nCalls = 0 /\ nProduced = 0

\* a public method may be entered: the object is alive and the process runs
Alive == dpc = "none" /\ ~crashed

(* ------------------------- initialize() -------------------------------- *)
\* Thread::run as initialize() calls it: INVALID_OPERATION when the thread
\* already runs, otherwise the thread starts (runOk) or fails to start.
ThreadRunStatus(runOk) ==
    IF mRunning THEN INVALID_OPERATION
    ELSE IF runOk THEN NO_ERROR ELSE UNKNOWN_ERROR

\* the status initialize() returns after Thread::run returned r: lines
\* 165-175 return ret in each of the three cases
InitializeRet(r) == r

\* lines 147-150 with `ret = NO_INIT' forgotten: ret keeps its initial value
QueueFailedRet_unset == NO_ERROR

\* lines 147-150: the status when createEventQueue returned NULL
QueueFailedRet == NO_INIT

\* status_t SensorListener::initialize(): qOk is the outcome of
\* createEventQueue, runOk the outcome of starting the thread.
\* `sp<Looper> mLooper' is a LOCAL of initialize (line 144): the member
\* mLooper is never assigned.
initialize(qOk, runOk) ==
    /\ Alive
    /\ nCalls < MaxCalls
    /\ nCalls' = nCalls + 1
    /\ LET q == IF qOk THEN nQueues + 1 ELSE 0
           l == nLoopers + 1
           newThread == ~mSensorLooperThread
           r == ThreadRunStatus(runOk)
           pre == NewOp("initialize", {}, NULL)
       IN
       /\ mSensorEventQueue' = q
       \* the queue held before is released with the assignment
       /\ pending' = <<>>
       /\ hwEnabled' = FALSE
       /\ IF q = 0
          THEN /\ last' = [pre EXCEPT !.ret = QueueFailedRet,
                                      !.calls = <<"createEventQueue">>]
               /\ UNCHANGED <<looperObjVars, threadVars, mSensorLooperThread>>
          ELSE /\ nQueues' = q
               /\ nLoopers' = l
               /\ mSensorLooperThread' = TRUE
               /\ thrLooper' = IF newThread THEN l ELSE thrLooper
               \* the local looper lives on only if the new thread holds it
               /\ looperFds' = Append(looperFds, IF newThread THEN {q} ELSE {})
               /\ IF r = NO_ERROR
                  THEN /\ mRunning' = TRUE
                       /\ mExitPending' = FALSE
                       /\ lpc' = "check"
                  ELSE UNCHANGED <<mRunning, mExitPending, lpc>>
               /\ last' = [pre EXCEPT
                             !.ret = InitializeRet(r),
                             !.calls = <<"createEventQueue", "newLooper", "addFd">>
                                       \o (IF newThread THEN <<"newThread">> ELSE <<>>)
                                       \o <<"run">>]
               /\ UNCHANGED <<wakePending, batch, hfn, cur, reading, num_sensors,
                               historyVars>>
    /\ UNCHANGED <<sensorsEnabled, mOrientationCb, mCbCookie, mLooper, mLock,
                   clientVars, dpc, crashed, nProduced>>

(* ------------------------- setCallbacks() ------------------------------ *)
\* lines 181-183: `if (orientation_cb) mOrientationCb = orientation_cb;'
\* No lock is taken.
setCallbacks_cb(c, args) ==
    /\ Alive
    /\ cpc[c] = "idle"
    /\ nCalls < MaxCalls
    /\ nCalls' = nCalls + 1
    /\ mOrientationCb' = IF args[1] # NULL THEN args[1] ELSE mOrientationCb
    /\ cpc' = [cpc EXCEPT ![c] = "cookie"]
    /\ carg' = [carg EXCEPT ![c] = Args(args, <<mOrientationCb, mCbCookie>>,
                                             \A d \in Clients : cpc[d] = "idle")]
    /\ last' = NewOp("setCallbacks", {}, NULL)
    /\ UNCHANGED <<sensorsEnabled, mCbCookie, mSensorEventQueue,
                   mSensorLooperThread, mLooper, mLock, looperObjVars,
                   threadVars, queueVars, dpc, crashed, nProduced>>

\* line 184: `mCbCookie = cookie;', whatever orientation_cb was
setCallbacks_cookie(c) ==
    /\ ~crashed
    /\ cpc[c] = "cookie"
    /\ mCbCookie' = carg[c].cookie
    /\ cpc' = [cpc EXCEPT ![c] = "idle"]
    /\ carg' = [carg EXCEPT ![c] = NoArgs]
    /\ UNCHANGED <<sensorsEnabled, mOrientationCb, mSensorEventQueue,
                   mSensorLooperThread, mLooper, mLock, looperObjVars,
                   threadVars, queueVars, dpc, last, crashed, countVars>>

(* ------------------- enableSensor() / disableSensor() ------------------ *)
\* enableSensor / disableSensor without the Autolock of lines 209 and 235
ClientLock_missing == TRUE

\* Mutex::Autolock lock(&mLock) of a client: the body runs when the lock is free
ClientLock == mLock = NONE

\* lines 211-219.  sensor: what getDefaultSensor returns; ok: whether the
\* subsystem carries out SensorEventQueue::enableSensor (its status is ignored).
\* line 211 without the test of sensorsEnabled
enableSensorWanted_always(type) == SENSOR_ORIENTATION \in type

\* line 211: `(type & SENSOR_ORIENTATION) && !(sensorsEnabled & SENSOR_ORIENTATION)'
enableSensorWanted(type) ==
    SENSOR_ORIENTATION \in type /\ SENSOR_ORIENTATION \notin sensorsEnabled

\* lines 211-219 without the `sensor != NULL' test of line 213
enableSensorBody_nonullcheck(type, sensor, ok) ==
    LET pre == NewOp("enableSensor", type, sensor)
    IN
    IF enableSensorWanted(type)
    THEN IF mSensorEventQueue = 0
         THEN /\ crashed' = TRUE
              /\ last' = [pre EXCEPT !.ret = SIGSEGV]
              /\ UNCHANGED <<sensorsEnabled, hwEnabled>>
         ELSE /\ hwEnabled' = (hwEnabled \/ (ok /\ sensor # NULL))
              /\ sensorsEnabled' = sensorsEnabled \cup {SENSOR_ORIENTATION}
              /\ last' = [pre EXCEPT !.calls = <<"enableSensor", "setEventRate">>]
              /\ UNCHANGED crashed
    ELSE /\ last' = pre
         /\ UNCHANGED <<sensorsEnabled, hwEnabled, crashed>>

enableSensorBody(type, sensor, ok) ==
    LET pre == NewOp("enableSensor", type, sensor)
    IN
    IF enableSensorWanted(type) /\ sensor # NULL
    THEN IF mSensorEventQueue = 0
         THEN \* mSensorEventQueue->enableSensor on a null queue
              /\ crashed' = TRUE
              /\ last' = [pre EXCEPT !.ret = SIGSEGV]
              /\ UNCHANGED <<sensorsEnabled, hwEnabled>>
         ELSE /\ hwEnabled' = (hwEnabled \/ ok)
              /\ sensorsEnabled' = sensorsEnabled \cup {SENSOR_ORIENTATION}
              /\ last' = [pre EXCEPT !.calls = <<"enableSensor", "setEventRate">>]
              /\ UNCHANGED crashed
    ELSE /\ last' = pre
         /\ UNCHANGED <<sensorsEnabled, hwEnabled, crashed>>

enableSensor(type, sensor, ok) ==
    /\ Alive
    /\ ClientLock
    /\ nCalls < MaxCalls
    /\ nCalls' = nCalls + 1
    /\ enableSensorBody(type, sensor, ok)
    /\ UNCHANGED <<mOrientationCb, mCbCookie, mSensorEventQueue,
                   mSensorLooperThread, mLooper, mLock, looperObjVars,
                   threadVars, pending, clientVars, dpc, nProduced>>

\* lines 237-244
disableSensorBody(type, sensor, ok) ==
    LET pre == NewOp("disableSensor", type, sensor)
    IN
    IF SENSOR_ORIENTATION \in type /\ SENSOR_ORIENTATION \in sensorsEnabled
       /\ sensor # NULL
    THEN IF mSensorEventQueue = 0
         THEN /\ crashed' = TRUE
              /\ last' = [pre EXCEPT !.ret = SIGSEGV]
              /\ UNCHANGED <<sensorsEnabled, hwEnabled>>
         ELSE /\ hwEnabled' = (hwEnabled /\ ~ok)
              /\ sensorsEnabled' = sensorsEnabled \ {SENSOR_ORIENTATION}
              /\ last' = [pre EXCEPT !.calls = <<"disableSensor">>]
              /\ UNCHANGED crashed
    ELSE /\ last' = pre
         /\ UNCHANGED <<sensorsEnabled, hwEnabled, crashed>>

disableSensor(type, sensor, ok) ==
    /\ Alive
    /\ ClientLock
    /\ nCalls < MaxCalls
    /\ nCalls' = nCalls + 1
    /\ disableSensorBody(type, sensor, ok)
    /\ UNCHANGED <<mOrientationCb, mCbCookie, mSensorEventQueue,
                   mSensorLooperThread, mLooper, mLock, looperObjVars,
                   threadVars, pending, clientVars, dpc, nProduced>>

(* ----------------------- the sensor subsystem -------------------------- *)
\* The subsystem queues a sample on the listener's event queue.  It delivers
\* accelerometer samples only while the accelerometer is enabled on the queue.
ProduceSample(kind, az, el, zero, max) ==
    /\ ~crashed
    /\ mSensorEventQueue # 0
    /\ nProduced < max
    /\ kind = TYPE_ACCELEROMETER => hwEnabled
    /\ nProduced' = nProduced + 1
    /\ pending' = Append(pending, Sample(kind, nProduced + 1, az, el, zero))
    /\ UNCHANGED <<listenerVars, mLock, looperObjVars, threadVars, hwEnabled,
                   clientVars, dpc, last, crashed, nCalls>>

\* a sample of the given type; its values play no part in what Spec is asked
Produce(kind) == ProduceSample(kind, 0, 0, FALSE, MaxSamples)

(* -------------------------- the looper thread -------------------------- *)
\* the event queue's descriptor is registered with the thread's looper and
\* is readable
FdReady ==
    /\ thrLooper # 0
    /\ mSensorEventQueue # 0
    /\ mSensorEventQueue \in looperFds[thrLooper]
    /\ pending # <<>>

\* Thread::_threadLoop: the exit flag is tested before each call of
\* threadLoop(); when set, the thread stops and join() may return.
ThreadCheck ==
    /\ ~crashed
    /\ lpc = "check"
    /\ IF mExitPending
       THEN mRunning' = FALSE /\ lpc' = "idle"
       ELSE lpc' = "poll" /\ UNCHANGED mRunning
    /\ num_sensors' = 0
    /\ UNCHANGED <<listenerVars, mLock, looperObjVars, mExitPending,
                   wakePending, batch, hfn, cur, reading, historyVars,
                   queueVars, clientVars, dpc, last, crashed, countVars>>

\* SensorLooperThread::threadLoop: mLooper->pollOnce(-1) blocks until the
\* wake token is there or the descriptor is readable; it consumes the token
\* and, when the descriptor is readable, calls sensor_events_listener.
PollOnce ==
    /\ ~crashed
    /\ lpc = "poll"
    /\ wakePending \/ FdReady
    /\ wakePending' = FALSE
    /\ lpc' = IF FdReady THEN "read" ELSE "check"
    /\ UNCHANGED <<listenerVars, mLock, looperObjVars, mRunning, mExitPending,
                   batch, hfn, cur, reading, num_sensors, historyVars,
                   queueVars, clientVars, dpc, last, crashed, countVars>>

Min(a, b) == IF a < b THEN a ELSE b

\* where the for loop of sensor_events_listener goes with b left to process:
\* the next element, or back to the while condition
AfterItem(b) == IF b = <<>> THEN "read" ELSE "item"

\* the negative values read() answers with when it fails (other than
\* -EAGAIN, which the queue gives when there is no data and which the code
\* treats as 0 but for the log line)
ReadErrors == {-5}

\* sensor_events_listener returning 0 on a failed read: the looper would
\* drop the descriptor
ListenerRet_stop(n) == IF n < 0 THEN 0 ELSE 1

\* line 92: `return 1', whatever num_sensors is
ListenerRet(n) == 1

\* lines 88-92, the loop left with num_sensors = n: the function returns; a
\* looper callback that returns 0 has its descriptor unregistered, one that
\* returns 1 keeps it.  The thread is back in its loop.
ListenerReturns(n) ==
    /\ num_sensors' = Kept(num_sensors, n)
    /\ looperFds' = IF ListenerRet(n) = 0
                    THEN [looperFds EXCEPT ![thrLooper] = {}]
                    ELSE looperFds
    /\ lpc' = "check"

\* line 47: `while ((num_sensors = listener->mSensorEventQueue->read(sen_events, 8)) > 0)'
\* with the queue's answer: up to 8 samples, or none (0 / -EAGAIN), which
\* ends the loop.
sensor_events_listener_read ==
    /\ ~crashed
    /\ lpc = "read"
    /\ IF mSensorEventQueue = 0
       THEN /\ crashed' = TRUE
            /\ UNCHANGED <<batch, pending, lpc, num_sensors, looperFds>>
       ELSE LET n == Min(BatchSize, Len(pending)) IN
            /\ batch' = SubSeq(pending, 1, n)
            /\ pending' = SubSeq(pending, n + 1, Len(pending))
            /\ IF n > 0
               THEN lpc' = "item" /\ UNCHANGED <<num_sensors, looperFds>>
               ELSE ListenerReturns(n)
            /\ UNCHANGED crashed
    /\ UNCHANGED <<listenerVars, mLock, mLooper, thrLooper, nLoopers, nQueues,
                   mRunning, mExitPending, wakePending, hfn, cur, reading,
                   historyVars, hwEnabled, clientVars, dpc, last, countVars>>

\* line 47 when read() fails with an error other than -EAGAIN: the loop ends
sensor_events_listener_error ==
    /\ ~crashed
    /\ lpc = "read"
    /\ mSensorEventQueue # 0
    /\ \E e \in ReadErrors : ListenerReturns(e)
    /\ UNCHANGED <<listenerVars, mLock, mLooper, thrLooper, nLoopers, nQueues,
                   mRunning, mExitPending, wakePending, batch, hfn, cur,
                   reading, historyVars, queueVars, clientVars, dpc, last,
                   crashed, countVars>>

\* the loop of line 48 taking the newest element of what is left
Element_last(b) == b[Len(b)]

\* line 48: `for (int i = 0; i < num_sensors; i++)' takes sen_events[i], the
\* oldest element of what is left of the batch
Element(b) == Head(b)

\* the test of line 49 passing every sample
IsAccelerometer_any(ev) == TRUE

\* line 49: `sen_events[i].type == Sensor::TYPE_ACCELEROMETER'
IsAccelerometer(ev) == ev.type = TYPE_ACCELEROMETER

\* lines 48-85, one element of the batch: an accelerometer sample goes to
\* handleOrientation, any other is skipped
sensor_events_listener_item ==
    /\ ~crashed
    /\ lpc = "item"
    /\ IF IsAccelerometer(Element(batch))
       THEN /\ \E t \in TiltsOf(Element(batch)) :
                  reading' = Reading(ToUint32(OrientOf(Element(batch))),
                                     ToUint32(t), Element(batch).seq)
            /\ lastHandled' = Kept(lastHandled, Element(batch).seq)
            /\ lpc' = "lock"
            /\ UNCHANGED batch
       ELSE /\ batch' = Tail(batch)
            /\ lpc' = AfterItem(Tail(batch))
            /\ UNCHANGED <<reading, lastHandled>>
    /\ UNCHANGED <<listenerVars, mLock, looperObjVars, mRunning, mExitPending,
                   wakePending, hfn, cur, num_sensors, track, lastInvoked,
                   queueVars, clientVars, dpc, last, crashed, countVars>>

\* lines 191-193: Autolock, then the test
\* `mOrientationCb && (sensorsEnabled & SENSOR_ORIENTATION)'.  When it fails
\* the reading is dropped and the lock released.
handleOrientation_test ==
    /\ ~crashed
    /\ lpc = "lock"
    /\ mLock = NONE
    /\ IF mOrientationCb # NULL /\ SENSOR_ORIENTATION \in sensorsEnabled
       THEN /\ mLock' = "looper"
            /\ hfn' = mOrientationCb
            /\ lpc' = "call"
            /\ UNCHANGED batch
            /\ UNCHANGED reading
       ELSE /\ mLock' = NONE
            /\ hfn' = NULL
            /\ reading' = NoReading
            /\ batch' = Tail(batch)
            /\ lpc' = AfterItem(Tail(batch))
    /\ UNCHANGED <<listenerVars, looperObjVars, mRunning, mExitPending,
                   wakePending, cur, num_sensors, historyVars, queueVars,
                   clientVars, dpc, last, crashed, countVars>>

\* line 194: `mOrientationCb(orientation, tilt, mCbCookie)'.  setCallbacks
\* writes both fields without the lock, so the function called is the value
\* tested or a value re-read, and the cookie is whatever the field holds now.
handleOrientation_call ==
    /\ ~crashed
    /\ lpc = "call"
    /\ \E f \in {hfn, mOrientationCb} :
           cur' = Call(f, mCbCookie, reading)
    /\ lastInvoked' = Kept(lastInvoked, reading.seq)
    /\ lpc' = "cb"
    /\ UNCHANGED <<listenerVars, mLock, looperObjVars, mRunning, mExitPending,
                   wakePending, batch, hfn, reading, num_sensors, track,
                   lastHandled, queueVars, clientVars, dpc, last, crashed,
                   countVars>>

\* the callback returns; handleOrientation releases the lock (line 196)
handleOrientation_return ==
    /\ ~crashed
    /\ lpc = "cb"
    /\ mLock' = NONE
    /\ cur' = NoCall
    /\ hfn' = NULL
    /\ reading' = NoReading
    /\ batch' = Tail(batch)
    /\ lpc' = AfterItem(Tail(batch))
    /\ UNCHANGED <<listenerVars, looperObjVars, mRunning, mExitPending,
                   wakePending, num_sensors, historyVars, queueVars,
                   clientVars, dpc, last, crashed, countVars>>

(* ------------------------- ~SensorListener() --------------------------- *)
\* ~SensorListener without line 115: the exit flag is not set before wake()
Destructor_requestExit_omitted ==
    /\ Alive
    /\ \A c \in Clients : cpc[c] = "idle"
    /\ dpc' = IF mSensorLooperThread THEN "wake" ELSE "looper"
    /\ UNCHANGED <<listenerVars, mLock, looperObjVars, threadVars, queueVars,
                   clientVars, last, crashed, countVars>>

\* lines 111-115: with a thread object, requestExit(); without, on to line 123.
\* The object is destroyed once, by a caller that has no other call on it in
\* progress; after that no public method is entered (Alive).
Destructor_requestExit ==
    /\ Alive
    /\ \A c \in Clients : cpc[c] = "idle"
    /\ IF mSensorLooperThread
       THEN mExitPending' = TRUE /\ dpc' = "wake"
       ELSE dpc' = "looper" /\ UNCHANGED mExitPending
    /\ UNCHANGED <<listenerVars, mLock, looperObjVars, mRunning, wakePending,
                   lpc, batch, hfn, cur, reading, num_sensors, historyVars,
                   queueVars, clientVars, last, crashed, countVars>>

\* ~SensorListener without line 116: no wake() after requestExit()
Destructor_wake_omitted ==
    /\ ~crashed
    /\ dpc = "wake"
    /\ dpc' = "join"
    /\ UNCHANGED <<listenerVars, mLock, looperObjVars, threadVars, queueVars,
                   clientVars, last, crashed, countVars>>

\* line 116: wake()
Destructor_wake ==
    /\ ~crashed
    /\ dpc = "wake"
    /\ wakePending' = TRUE
    /\ dpc' = "join"
    /\ UNCHANGED <<listenerVars, mLock, looperObjVars, mRunning, mExitPending,
                   lpc, batch, hfn, cur, reading, num_sensors, historyVars,
                   queueVars, clientVars, last, crashed, countVars>>

\* Thread::join returns once the thread has stopped
JoinReturns == ~mRunning

\* lines 117-119: join(), then the thread object is released (a thread that
\* still ran would keep itself and its looper alive)
Destructor_clear ==
    /\ ~crashed
    /\ dpc = "join"
    /\ mSensorLooperThread' = FALSE
    /\ thrLooper' = IF mRunning THEN thrLooper ELSE 0
    /\ dpc' = "looper"
    /\ UNCHANGED <<sensorsEnabled, mOrientationCb, mCbCookie, mSensorEventQueue,
                   mLooper, mLock, looperFds, nLoopers, nQueues, threadVars,
                   queueVars, clientVars, last, crashed, countVars>>

\* ~SensorListener without line 117: the thread object is released unjoined
Destructor_join_skipped == Destructor_clear

Destructor_join == JoinReturns /\ Destructor_clear

\* lines 123-127: only when the MEMBER mLooper is set, removeFd and release
Destructor_looper ==
    /\ ~crashed
    /\ dpc = "looper"
    /\ IF mLooper # 0
       THEN IF mSensorEventQueue = 0
            THEN crashed' = TRUE /\ UNCHANGED <<looperFds, mLooper, dpc>>
            ELSE /\ looperFds' = [looperFds EXCEPT ![mLooper] = @ \ {mSensorEventQueue}]
                 /\ mLooper' = 0
                 /\ dpc' = "done"
                 /\ UNCHANGED crashed
       ELSE dpc' = "done" /\ UNCHANGED <<looperFds, mLooper, crashed>>
    /\ UNCHANGED <<sensorsEnabled, mOrientationCb, mCbCookie, mSensorEventQueue,
                   mSensorLooperThread, mLock, thrLooper, nLoopers, nQueues,
                   threadVars, queueVars, clientVars, last, countVars>>

(* --------------------------- specification ----------------------------- *)
Next ==
    \/ \E qOk \in BOOLEAN, runOk \in BOOLEAN : initialize(qOk, runOk)
    \/ \E c \in Clients, a \in SetCbArgs : setCallbacks_cb(c, a)
    \/ \E c \in Clients : setCallbacks_cookie(c)
    \/ \E t \in SensorTypes, s \in {NULL, "accel"}, ok \in BOOLEAN : enableSensor(t, s, ok)
    \/ \E t \in SensorTypes, s \in {NULL, "accel"}, ok \in BOOLEAN : disableSensor(t, s, ok)
    \/ \E k \in SampleTypes : Produce(k)
    \/ ThreadCheck
    \/ PollOnce
    \/ sensor_events_listener_read
    \/ sensor_events_listener_error
    \/ sensor_events_listener_item
    \/ handleOrientation_test
    \/ handleOrientation_call
    \/ handleOrientation_return
    \/ Destructor_requestExit
    \/ Destructor_wake
    \/ Destructor_join
    \/ Destructor_looper

Spec == Init /\ [][Next]_vars

(* ------------------- the running listener, draining -------------------- *)
\* the samples (by number) that may be gyroscope samples in DrainSpec
GyroSlots == {2, MaxDrain}

\* The listener after initialize() succeeded, setCallbacks("f1", "k1") and
\* enableSensor(SENSOR_ORIENTATION) with the accelerometer present: the state
\* Spec reaches by these three calls, the thread about to test its exit flag,
\* with the samples q (np of them) produced since.
RunningWith(q, np) ==
    /\ sensorsEnabled = {SENSOR_ORIENTATION}
    /\ mOrientationCb = "f1"
    /\ mCbCookie = "k1"
    /\ mSensorEventQueue = 1
    /\ mSensorLooperThread = TRUE
    /\ mLooper = 0
    /\ mLock = NONE
    /\ thrLooper = 1
    /\ looperFds = <<{1}>>
    /\ nLoopers = 1
    /\ nQueues = 1
    /\ mRunning = TRUE
    /\ mExitPending = FALSE
    /\ wakePending = FALSE
    /\ lpc = "check"
    /\ batch = <<>>
    /\ hfn = NULL
    /\ cur = NoCall
    /\ reading = NoReading
    /\ num_sensors = 0
    /\ lastHandled = 0
    /\ lastInvoked = 0
    /\ pending = q
    /\ hwEnabled = TRUE
    /\ cpc = [c \in Clients |-> "idle"]
    /\ carg = [c \in Clients |-> NoArgs]
    /\ dpc = "none"
    /\ last = [NewOp("enableSensor", {SENSOR_ORIENTATION}, "accel")
                  EXCEPT !.calls = <<"enableSensor", "setEventRate">>]
    /\ crashed = FALSE
    /\ nCalls = 3 /\ nProduced = np

RunningListener == RunningWith(<<>>, 0)

DrainInit == RunningListener /\ track = TRUE

\* the subsystem in DrainSpec: up to MaxDrain samples, accelerometer samples
\* but for the GyroSlots
DrainProduce(kind) ==
    /\ kind = TYPE_GYROSCOPE => (nProduced + 1) \in GyroSlots
    /\ ProduceSample(kind, 0, 0, FALSE, MaxDrain)

\* a step of the looper thread
LooperThread ==
    \/ ThreadCheck
    \/ PollOnce
    \/ sensor_events_listener_read
    \/ sensor_events_listener_error
    \/ sensor_events_listener_item
    \/ handleOrientation_test
    \/ handleOrientation_call
    \/ handleOrientation_return

\* a step of the destructor once it is entered
Destructor ==
    \/ Destructor_wake
    \/ Destructor_join
    \/ Destructor_looper

DrainNext ==
    \/ \E k \in SampleTypes : DrainProduce(k)
    \/ \E s \in {NULL, "accel"}, ok \in BOOLEAN :
           enableSensor({SENSOR_ORIENTATION}, s, ok)
    \/ \E s \in {NULL, "accel"}, ok \in BOOLEAN :
           disableSensor({SENSOR_ORIENTATION}, s, ok)
    \/ ThreadCheck
    \/ PollOnce
    \/ sensor_events_listener_read
    \/ sensor_events_listener_error
    \/ sensor_events_listener_item
    \/ handleOrientation_test
    \/ handleOrientation_call
    \/ handleOrientation_return
    \/ Destructor_requestExit
    \/ Destructor_wake
    \/ Destructor_join
    \/ Destructor_looper

\* The looper thread and the thread that runs the destructor are threads of
\* the operating system: each goes on running while it can take a step.
DrainSpec ==
    /\ DrainInit
    /\ [][DrainNext]_vars
    /\ WF_vars(LooperThread)
    /\ WF_vars(Destructor)

(* ------------------- one sample through the handler ------------------- *)
\* the azimuths (tenths of a degree) and elevations (degrees) of the samples
Azimuths == 0 .. (3600 - 1)
Elevations == -90 .. 90

\* the accelerometer samples of MathSpec: every azimuth in the horizontal
\* plane, every elevation, and the sample x = y = z = 0
MathSamples ==
    {Sample(TYPE_ACCELEROMETER, 1, az, 0, FALSE) : az \in Azimuths}
    \cup {Sample(TYPE_ACCELEROMETER, 1, 0, el, FALSE) : el \in Elevations}
    \cup {Sample(TYPE_ACCELEROMETER, 1, 0, 0, TRUE)}

\* the running listener with one sample waiting on its queue
MathInit == track = FALSE /\ \E s \in MathSamples : RunningWith(<<s>>, 1)

MathNext ==
    \/ ThreadCheck
    \/ PollOnce
    \/ sensor_events_listener_read
    \/ sensor_events_listener_item
    \/ handleOrientation_test
    \/ handleOrientation_call
    \/ handleOrientation_return

MathSpec == MathInit /\ [][MathNext]_vars

(* ------------------------------ claims --------------------------------- *)
\* this step enters (and, but for setCallbacks, completes) the public call op
Called(op) == nCalls' = nCalls + 1 /\ last'.op = op

OrientationBit == SENSOR_ORIENTATION \in sensorsEnabled
Dispatching == lpc \in {"call", "cb"}

\* C1: once the destructor has requested exit (the listener is ShuttingDown
\* or Destroyed), no callback invocation begins any more.
C1_NoCallbackOnceShuttingDown ==
    [][(dpc # "none" /\ lpc # "cb") => lpc' # "cb"]_vars

\* C2: after the destructor has returned, the looper thread dispatches
\* nothing: no handleOrientation call and no callback invocation is in
\* progress, whatever samples are pending.
C2_NoDispatchAfterDestroy ==
    dpc = "done" => (lpc \notin {"lock", "call", "cb"} /\ cur = NoCall)

\* the listener was started, a callback registered and the sensor enabled;
\* the thread took the destructor's wake and was joined; an accelerometer
\* sample is pending on the registered queue of the destroyed listener
C2_Witness ==
    /\ dpc = "done"
    /\ mExitPending /\ ~wakePending /\ ~mRunning
    /\ mOrientationCb # NULL /\ OrientationBit
    /\ nLoopers = 1 /\ looperFds[1] = {mSensorEventQueue}
    /\ pending # <<>> /\ Head(pending).type = TYPE_ACCELEROMETER

\* C3: every callback invocation passes the cookie that was supplied in the
\* same setCallbacks call as the function invoked.
C3_CookieMatchesCallback ==
    lpc = "cb" => cur.cookie = CookieOf(cur.fn)

\* C4: a setCallbacks call with a null callback, entered when a registration
\* (f, c1) is in place and not overlapped by another setCallbacks call,
\* leaves the pair (f, c1) as it was.
C4_NullCallbackKeepsSlot ==
    [][\A c \in Clients :
          (/\ cpc[c] = "cookie" /\ cpc'[c] = "idle" /\ carg[c].cb = NULL
           /\ carg[c].alone
           /\ carg[c].slot[1] # NULL
           /\ carg[c].slot[2] = CookieOf(carg[c].slot[1])
           /\ <<mOrientationCb, mCbCookie>> = carg[c].slot
           /\ \A d \in Clients \ {c} : cpc[d] = "idle")
          => <<mOrientationCb', mCbCookie'>> = carg[c].slot]_vars

\* C5: handleOrientation goes on to invoke the callback exactly when, under
\* the lock, a callback is registered and the orientation bit is set; and
\* while it is about to invoke or is invoking the callback the bit stays set.
C5_DispatchOnlyWhileEnabled ==
    [][/\ (lpc = "lock" /\ lpc' # "lock")
            => (lpc' = "call" <=> (mOrientationCb # NULL /\ OrientationBit))
       /\ Dispatching' => OrientationBit']_vars

\* a callback is running while a client may still call disableSensor
C5_Witness ==
    /\ lpc = "cb" /\ mLock = "looper" /\ OrientationBit
    /\ dpc = "none" /\ nCalls < MaxCalls

\* C6: enableSensor on a set orientation bit, and disableSensor on a clear
\* one, change neither the mask nor the subsystem and make no call on the
\* event queue.
C6_EnableDisableIdempotent ==
    [][/\ (Called("enableSensor") /\ OrientationBit)
            => (last'.calls = <<>> /\ UNCHANGED <<sensorsEnabled, hwEnabled>>)
       /\ (Called("disableSensor") /\ ~OrientationBit)
            => (last'.calls = <<>> /\ UNCHANGED <<sensorsEnabled, hwEnabled>>)]_vars

\* enableSensor(SENSOR_ORIENTATION) was called with the sensor present on a
\* mask that had the bit, and did nothing
C6_Witness ==
    /\ last.op = "enableSensor" /\ last.arg = {SENSOR_ORIENTATION}
    /\ last.sensor # NULL /\ last.calls = <<>> /\ last.ret = NO_ERROR
    /\ OrientationBit /\ hwEnabled

\* C7: enableSensor when getDefaultSensor returns null returns normally,
\* leaves the mask and the subsystem alone and calls nothing on the event
\* queue; with the bit clear, readings are still dropped.
C7_EnableWithoutSensorIsNoOp ==
    [][/\ (Called("enableSensor") /\ last'.sensor = NULL)
            => /\ last'.ret = NO_ERROR /\ ~crashed'
               /\ last'.calls = <<>>
               /\ UNCHANGED <<sensorsEnabled, hwEnabled>>
       /\ (~OrientationBit' /\ lpc = "lock") => lpc' \notin {"call", "cb"}]_vars

\* enableSensor(SENSOR_ORIENTATION) found no accelerometer: the bit is clear
\* and the looper thread enters handleOrientation with a reading
C7_Witness ==
    /\ last.op = "enableSensor" /\ last.arg = {SENSOR_ORIENTATION}
    /\ last.sensor = NULL /\ last.ret = NO_ERROR /\ ~OrientationBit
    /\ mSensorEventQueue # 0 /\ lpc = "lock"

\* C8: the orientation bit is set only while the accelerometer is enabled at
\* the subsystem, and disableSensor on a set bit with the sensor present
\* disables the sensor and clears the bit.
C8_MaskMatchesSubsystem ==
    [][/\ OrientationBit' => hwEnabled'
       /\ (/\ Called("disableSensor") /\ OrientationBit /\ ~crashed'
           /\ SENSOR_ORIENTATION \in last'.arg /\ last'.sensor # NULL)
            => (~OrientationBit' /\ ~hwEnabled')]_vars

\* C9: initialize() on a running thread returns success and the thread
\* keeps running.
C9_AlreadyRunningIsSuccess ==
    [][(Called("initialize") /\ mRunning /\ mSensorEventQueue' # 0)
          => (last'.ret = NO_ERROR /\ mRunning')]_vars

\* C10: when createEventQueue fails, initialize() returns NO_INIT having
\* created no looper, registered no descriptor and created or started no
\* thread, and a Constructed listener stays Constructed; when the thread
\* fails to start for another reason than `already running', initialize()
\* returns that error.
C10_InitFailuresSurface ==
    [][Called("initialize") =>
         /\ mSensorEventQueue' = 0
              => /\ last'.ret = NO_INIT
                 /\ last'.calls = <<"createEventQueue">>
                 /\ UNCHANGED <<nLoopers, looperFds, thrLooper,
                                mSensorLooperThread, mRunning, lpc>>
                 /\ (ListenerState = "Constructed" => ListenerState' = "Constructed")
         /\ (mSensorEventQueue' # 0 /\ ~mRunning /\ ~mRunning')
              => last'.ret = UNKNOWN_ERROR]_vars

\* initialize() failed on a Constructed listener for want of an event queue
C10_Witness ==
    /\ last.op = "initialize" /\ last.ret = NO_INIT
    /\ ListenerState = "Constructed" /\ nLoopers = 0

\* C11: under fair scheduling, once the destructor has requested exit and
\* issued wake() (it is at join), whatever the looper thread is doing --
\* blocked in pollOnce, about to block, draining, inside a callback -- the
\* thread sees the exit flag and stops, join returns and the destructor
\* finishes: the wake is not lost.
C11_DestructionCompletes ==
    (dpc = "join") ~> (dpc = "done" /\ ~mRunning /\ lpc = "idle")

\* wake() was issued after the thread tested the exit flag and before it
\* blocks in pollOnce with nothing to read: only the token gets it out
C11_Witness ==
    /\ dpc = "join"
    /\ mRunning /\ lpc = "poll"
    /\ mExitPending /\ wakePending
    /\ ~FdReady

\* C12: callback invocations occur in the order the samples were produced:
\* an invocation begins only when none is in progress, and for a sample
\* produced after the one the previous invocation was for -- within a batch,
\* across batches of 8 and across wakes.
C12_CallbacksInProductionOrder ==
    [][(lpc = "call" /\ lpc' = "cb")
         => (cur = NoCall /\ cur'.seq > lastInvoked /\ cur'.seq <= nProduced)]_vars

\* the callback runs for a sample of the second batch
C12_Witness ==
    /\ lpc = "cb"
    /\ cur.seq > BatchSize
    /\ lastInvoked = cur.seq

\* the sample the callback is being invoked for
Delivered == Head(batch)

\* the discretisation of section 4.1 applied to the azimuth itself (az10 in
\* tenths of a degree): >= 250 gives 270, >= 170 gives 180, >= 50 gives 90
AzimuthSector(az10) ==
    IF az10 >= 10 * DEGREES_270_THRESH THEN 270
    ELSE IF az10 >= 10 * DEGREES_180_THRESH THEN 180
    ELSE IF az10 >= 10 * DEGREES_90_THRESH THEN 90
    ELSE 0

\* C13: the orientation delivered is the discretisation of the azimuth
\* atan2(-x, y) in degrees, normalised to [0, 360), with inclusive thresholds
\* 50, 170 and 250: 49.9 gives 0, 50.0 gives 90, 169.9 gives 90, 170.0 gives
\* 180, 249.9 gives 180 and 250.0 gives 270.
C13_OrientationDiscretizesAzimuth ==
    (lpc = "cb" /\ ~Delivered.zero)
       => cur.orientation = ToUint32(AzimuthSector(Delivered.az))

\* C14: the tilt delivered is asin(z / radius) in degrees, a signed integer
\* in [-90, 90] (to within one degree of rounding); straight up gives about 90.
C14_TiltIsElevationInDegrees ==
    (lpc = "cb" /\ ~Delivered.zero)
       => \E d \in -1..1 : cur.tilt = ToUint32(Delivered.el + d)

\* C15: the sample x = y = z = 0 gives a defined reading, tilt 0 (the code has
\* no "unknown" reading), whatever the build.
C15_ZeroSampleIsDefined ==
    (lpc \in {"lock", "call", "cb"} /\ Delivered.zero)
       => reading.tilt = ToUint32(0)

\* the destructor's steps in the order of the code: requestExit, wake, join
\* and release of the thread, then the looper; without a thread object,
\* straight to the looper
DestructorOrder ==
    {<<"none", "wake">>, <<"wake", "join">>, <<"join", "looper">>,
     <<"looper", "done">>, <<"none", "looper">>}

\* C16: the destructor requests exit, then wakes, then joins; only after the
\* join has returned does it come to the removal of the descriptor and the
\* release of the looper: nothing is removed or released while the thread can
\* still wait or drain.
C16_ShutdownOrder ==
    /\ [][/\ dpc' # dpc => <<dpc, dpc'>> \in DestructorOrder
          /\ (dpc = "none" /\ dpc' = "wake") => mExitPending'
          /\ (dpc = "wake" /\ dpc' = "join") => (mExitPending /\ wakePending')
          /\ (dpc = "join" /\ dpc' = "looper") => (~mRunning /\ lpc = "idle")
          /\ (dpc # "none" /\ <<looperFds', thrLooper', mLooper', mSensorEventQueue'>>
                               # <<looperFds, thrLooper, mLooper, mSensorEventQueue>>)
                => (dpc \in {"join", "looper"} /\ ~mRunning /\ lpc = "idle")]_vars
    /\ [](dpc \in {"looper", "done"} => (~mRunning /\ lpc = "idle"))

\* the thread ran, was asked to exit, woken and joined; its looper has been
\* released and the destructor is at the looper teardown
C16_Witness ==
    /\ dpc = "looper"
    /\ nLoopers > 0 /\ thrLooper = 0
    /\ mExitPending /\ ~mRunning
    /\ ~mSensorLooperThread

\* C17: the handler drains in batches of at most 8 and returns only when a
\* read gave no data or failed; every accelerometer sample read is handed to
\* handleOrientation exactly once and gives at most one callback invocation;
\* no other sample reaches handleOrientation.
C17_DrainExactlyOnce ==
    /\ [](Len(batch) <= BatchSize)
    /\ [](lpc \in {"lock", "call", "cb"}
            => /\ Head(batch).type = TYPE_ACCELEROMETER
               /\ reading.seq = Head(batch).seq
               /\ lastHandled = Head(batch).seq)
    /\ [][/\ (lpc = "item" /\ lpc' = "lock") => Head(batch).seq > lastHandled
          /\ (lpc = "call" /\ lpc' = "cb")
                => (cur'.seq = lastHandled /\ lastInvoked < lastHandled)
          /\ (batch # <<>> /\ batch' # batch)
                => /\ batch' = Tail(batch)
                   /\ (Head(batch).type = TYPE_ACCELEROMETER)
                         <=> (lastHandled = Head(batch).seq)
          /\ (lpc = "read" /\ lpc' = "item")
                => /\ batch = <<>>
                   /\ batch' \o pending' = pending
                   /\ Len(batch') = Min(BatchSize, Len(pending))
          /\ (lpc = "read" /\ lpc' = "check")
                => \/ pending = <<>> /\ num_sensors' = 0
                   \/ num_sensors' < 0]_vars

\* a full batch of 8 has been read and more samples wait for the next read
C17_Witness ==
    /\ lpc = "item"
    /\ Len(batch) = BatchSize
    /\ pending # <<>>

\* C18: a failed read does not end delivery: whatever the last read returned,
\* the handler's return keeps the descriptor registered and the thread in its
\* loop, so that samples waiting after the error make the descriptor ready
\* and, unless exit is requested, the thread reads again; the thread stops
\* only when exit was requested.
C18_ErrorKeepsDelivery ==
    /\ [][(lpc = "read" /\ lpc' = "check")
            => (looperFds' = looperFds /\ mRunning' /\ thrLooper' = thrLooper)]_vars
    /\ [][(mRunning /\ ~mRunning') => mExitPending]_vars
    /\ []((lpc = "check" /\ num_sensors < 0 /\ pending # <<>>) => FdReady)
    /\ (lpc = "check" /\ num_sensors < 0 /\ pending # <<>>)
          ~> (lpc = "read" \/ mExitPending)

\* the handler has returned after a failed read while samples wait
C18_Witness ==
    /\ lpc = "check"
    /\ num_sensors < 0
    /\ pending # <<>>
    /\ mRunning /\ ~mExitPending

\* C19: after a successful initialize() the member mLooper holds the looper
\* on which the event queue's descriptor was registered, so that the
\* destructor's removeFd (after the join) runs: once the object is destroyed
\* no looper has a descriptor left registered.
C19_MemberLooperHoldsRegistration ==
    /\ (last.op = "initialize" /\ last.ret = NO_ERROR /\ dpc = "none")
          => (mLooper # 0 /\ mSensorEventQueue \in looperFds[mLooper])
    /\ dpc = "done" => \A l \in 1..nLoopers : looperFds[l] = {}

\* this step calls a method of the event queue: enableSensor, disableSensor
\* (with setEventRate) from the public calls, read from the handler, getFd
\* from the destructor
QueueCalled ==
    \/ /\ nCalls' = nCalls + 1
       /\ last'.op \in {"enableSensor", "disableSensor"}
       /\ last'.calls # <<>> \/ last'.ret = SIGSEGV
    \/ /\ lpc = "read"
       /\ lpc' # "read" \/ crashed'
    \/ /\ dpc = "looper" /\ mLooper # 0
       /\ dpc' = "done" \/ crashed'

\* C20: in every order of the public calls, when the listener calls into the
\* event queue, mSensorEventQueue is non-null and is the queue whose
\* descriptor is registered with the looper the thread waits on.
C20_QueueValidWhenCalled ==
    [][QueueCalled => /\ mSensorEventQueue # 0
                      /\ thrLooper # 0
                      /\ mSensorEventQueue \in looperFds[thrLooper]]_vars
====
